---- MODULE Spec2Model ----
(***************************************************************************)
(* The numeric core of m5/hrf_tutorial.ipynb: building stimulus time       *)
(* series with the list idiom [0]*k + [1] + [0]*m, adding them element by  *)
(* element with NumPy's +, and convolving them with the hrf vector with    *)
(* np.convolve (default mode, 'full').                                     *)
(*                                                                         *)
(* Numbers: the notebook's hrf holds decimals with one fractional digit,   *)
(* so every hrf value is stored here multiplied by ten (9.2 is 92); the    *)
(* stimulus vectors are integer arrays and stay as they are.  Arithmetic   *)
(* is exact integer arithmetic.  Sequences are 1-indexed in TLA+; the      *)
(* Python index i is the TLA+ index i + 1.                                 *)
(***************************************************************************)
EXTENDS Integers, Sequences, FiniteSets, TLC

VARIABLES
    fn,             \* which operation the call is about
    pc,             \* "call" before the operation has run, then the step reached
    signal,         \* first argument of np.convolve
    kernel,         \* second argument of np.convolve
    seqs,           \* the arrays added together with +
    length,         \* makeImpulseTrain: number of samples
    onsetIndices,   \* makeImpulseTrain: set of onset indices
    zerosBefore,    \* k of [0]*k + [1] + [0]*m
    zerosAfter,     \* m of [0]*k + [1] + [0]*m
    result,         \* what the operation returned or raised
    swapped,        \* np.convolve with the two arguments exchanged
    conv_all,       \* np.convolve of the summed time series
    parts,          \* np.convolve of each time series of seqs
    ns,             \* the notebook's variables: name -> value
    defined,        \* the names of ns that have been assigned
    last,           \* the notebook cell run last, 0 before any
    topdown,        \* k: exactly the first k code cells have run, in order; -1 otherwise
    raised          \* a cell has raised an exception

nbvars == <<ns, defined, last, topdown, raised>>

vars == <<fn, pc, signal, kernel, seqs, length, onsetIndices, zerosBefore,
          zerosAfter, result, swapped, conv_all, parts, nbvars>>

(***************************************************************************)
(* Bounds of the generic inputs.                                           *)
(***************************************************************************)
MaxLen == 3         \* longest generic signal given to np.convolve
MaxKLen == 3        \* longest generic kernel
MaxLinLen == 2      \* longest generic signal of the sum-then-convolve cells
MaxSeqs == 3        \* most arrays in one generic sum
MaxSumLen == 2      \* longest generic array in a sum
MaxTrainLen == 5    \* longest generic impulse train

Vals == {-1, 0, 1}
Bits == {0, 1}

SeqsUpTo(S, n) == UNION {[1..m -> S] : m \in 0..n}

(***************************************************************************)
(* Python lists and the notebook's vectors.                                *)
(***************************************************************************)
\* [x]*n : n copies of x, the empty list when n <= 0
ListRepeat(x, n) == [i \in 1..n |-> x]

\* forgets that Python counts from zero: k-1 zeros before the 1
ZerosOneZerosFromOne(k, m) == ListRepeat(0, k - 1) \o <<1>> \o ListRepeat(0, m)

\* np.array([0]*k + [1] + [0]*m)
ZerosOneZeros(k, m) == ListRepeat(0, k) \o <<1>> \o ListRepeat(0, m)

\* hrf = np.array([0, 0, 1, 5, 8, 9.2, 9, 7, 4, 2, 0, -1, -1, -0.8, -0.7, -0.5, -0.3, -0.1, 0, 0]), in tenths
hrf == <<0, 0, 10, 50, 80, 92, 90, 70, 40, 20, 0, -10, -10, -8, -7, -5, -3, -1, 0, 0>>

\* the text's "9 zeros, then a 1, then 50 more zeros"
first_light_nine_zeros == ZerosOneZeros(9, 50)

first_light_stim_time_series == ZerosOneZeros(10, 50)

second_light_stim_time_series_t30 == ZerosOneZeros(30, 30)

\* the stale value: the onset-30 vector of the earlier cell
second_light_stale == ZerosOneZeros(30, 30)

second_light_stim_time_series_t16 == ZerosOneZeros(16, 44)

\* a flash at t=16 again: the onset coincides with the second light's
third_light_coinciding == ZerosOneZeros(16, 44)

third_light_stim_time_series == ZerosOneZeros(13, 47)

(***************************************************************************)
(* A call either returns a value or raises; a raised call returns nothing. *)
(***************************************************************************)
Ok(v) == [ok |-> TRUE, val |-> v, err |-> "none"]
Raise(e) == [ok |-> FALSE, val |-> <<>>, err |-> e]
NotCalled == [ok |-> FALSE, val |-> <<>>, err |-> "not called"]

(***************************************************************************)
(* NumPy's + on two 1-d arrays: element by element, an array of one        *)
(* element is broadcast to the other's length, any other pair of unequal   *)
(* lengths raises ValueError.                                              *)
(***************************************************************************)
\* pairs the elements up like zip: stops at the shorter array, never raises
np_add_zip(x, y) ==
    LET n == IF Len(x) < Len(y) THEN Len(x) ELSE Len(y)
    IN  Ok([i \in 1..n |-> x[i] + y[i]])

\* a stimulus is present or absent: the sum saturates at 1
np_add_saturating(x, y) ==
    LET Sat(v) == IF v > 1 THEN 1 ELSE v
    IN  IF Len(x) = Len(y) THEN Ok([i \in 1..Len(x) |-> Sat(x[i] + y[i])])
        ELSE IF Len(x) = 1 THEN Ok([i \in 1..Len(y) |-> Sat(x[1] + y[i])])
        ELSE IF Len(y) = 1 THEN Ok([i \in 1..Len(x) |-> Sat(x[i] + y[1])])
        ELSE Raise("operands could not be broadcast together")

np_add(x, y) ==
    IF Len(x) = Len(y) THEN Ok([i \in 1..Len(x) |-> x[i] + y[i]])
    ELSE IF Len(x) = 1 THEN Ok([i \in 1..Len(y) |-> x[1] + y[i]])
    ELSE IF Len(y) = 1 THEN Ok([i \in 1..Len(x) |-> x[i] + y[1]])
    ELSE Raise("operands could not be broadcast together")

\* s1 + s2 + ... + sn, evaluated left to right; the first failure ends it
RECURSIVE add_all(_, _)
add_all(acc, rest) ==
    IF ~acc.ok \/ rest = <<>> THEN acc
    ELSE add_all(np_add(acc.val, Head(rest)), Tail(rest))

sumSequences(ss) == add_all(Ok(Head(ss)), Tail(ss))

(***************************************************************************)
(* np.convolve(a, v), mode 'full':                                         *)
(*     if len(v) > len(a): a, v = v, a                                     *)
(*     if len(a) == 0: raise ValueError('a cannot be empty')               *)
(*     if len(v) == 0: raise ValueError('v cannot be empty')               *)
(*     return multiarray.correlate(a, v[::-1], 'full')                     *)
(***************************************************************************)
\* v[::-1] left out
NoReverse(v) == v

\* v[::-1]
Reverse(v) == [i \in 1..Len(v) |-> v[Len(v) + 1 - i]]

\* sum over i in from..Len(v) of a[k - Len(v) + i] * v[i], a being 0 outside 1..Len(a)
RECURSIVE dot(_, _, _, _)
dot(a, v, k, from) ==
    IF from > Len(v) THEN 0
    ELSE LET j == k - Len(v) + from
         IN  (IF j >= 1 /\ j <= Len(a) THEN a[j] * v[from] ELSE 0) + dot(a, v, k, from + 1)

\* mode 'valid': only the positions where v lies wholly inside a
correlate_valid(a, v) == [k \in 1..(Len(a) - Len(v) + 1) |-> dot(a, v, k + Len(v) - 1, 1)]

\* multiarray.correlate(a, v, 'full'), Len(a) >= Len(v) >= 1
correlate(a, v) == [k \in 1..(Len(a) + Len(v) - 1) |-> dot(a, v, k, 1)]

\* the output cut to the length of the first argument
convolve_trunc(a, v) ==
    LET sw == Len(v) > Len(a)
        aa == IF sw THEN v ELSE a
        vv == IF sw THEN a ELSE v
    IN  IF Len(aa) = 0 THEN Raise("a cannot be empty")
        ELSE IF Len(vv) = 0 THEN Raise("v cannot be empty")
        ELSE Ok(SubSeq(correlate(aa, Reverse(vv)), 1, Len(a)))

\* the two emptiness checks left out
convolve_unchecked(a, v) ==
    LET sw == Len(v) > Len(a)
        aa == IF sw THEN v ELSE a
        vv == IF sw THEN a ELSE v
    IN  IF Len(vv) = 0 THEN Ok(aa) ELSE Ok(correlate(aa, Reverse(vv)))

convolve(a, v) ==
    LET sw == Len(v) > Len(a)
        aa == IF sw THEN v ELSE a
        vv == IF sw THEN a ELSE v
    IN  IF Len(aa) = 0 THEN Raise("a cannot be empty")
        ELSE IF Len(vv) = 0 THEN Raise("v cannot be empty")
        ELSE Ok(correlate(aa, Reverse(vv)))

(***************************************************************************)
(* makeImpulseTrain(length, onsetIndices): the constructor that stands for *)
(* the list idiom, with its range check.                                   *)
(***************************************************************************)
\* range check off by one: the index equal to length is let through
makeImpulseTrain_inclusive(len, onsets) ==
    IF \E i \in onsets : i < 0 \/ i > len THEN Raise("IndexOutOfRange")
    ELSE Ok([i \in 1..len |-> IF (i - 1) \in onsets THEN 1 ELSE 0])

makeImpulseTrain(len, onsets) ==
    IF \E i \in onsets : i < 0 \/ i > len - 1 THEN Raise("IndexOutOfRange")
    ELSE Ok([i \in 1..len |-> IF (i - 1) \in onsets THEN 1 ELSE 0])

(***************************************************************************)
(* The inputs a call is made with.                                         *)
(***************************************************************************)
NotebookSignals ==
    {first_light_stim_time_series, second_light_stim_time_series_t30,
     second_light_stim_time_series_t16, third_light_stim_time_series}

ConvolveSignals == SeqsUpTo(Vals, MaxLen) \cup NotebookSignals
ConvolveKernels == SeqsUpTo(Vals, MaxKLen) \cup {hrf}

NotebookSums ==
    {<<first_light_stim_time_series, second_light_stim_time_series_t30>>,
     <<first_light_stim_time_series, second_light_stim_time_series_t16>>,
     <<first_light_stim_time_series, second_light_stim_time_series_t16,
       third_light_stim_time_series>>}

LinearSums ==
    {<<a, b>> : a \in SeqsUpTo(Vals, MaxLinLen), b \in SeqsUpTo(Vals, MaxLinLen)}

SumLists ==
    UNION {[1..n -> SeqsUpTo(Bits, MaxSumLen)] : n \in 1..MaxSeqs}
      \cup NotebookSums
      \cup {<<first_light_stim_time_series, ListRepeat(0, 50)>>,
            <<first_light_stim_time_series, <<1>>>>,
            <<<<1>>, first_light_stim_time_series>>}

TrainInputs ==
    ((1..MaxTrainLen) \X (SUBSET (-1..(MaxTrainLen + 1))))
      \cup {<<61, {}>>, <<61, {10}>>, <<61, {13}>>, <<61, {16}>>, <<61, {30}>>,
            <<61, {10, 16}>>, <<61, {61}>>, <<61, {-1}>>}

ListInputs ==
    ((-1..MaxTrainLen) \X (-1..MaxTrainLen))
      \cup {<<10, 50>>, <<30, 30>>, <<16, 44>>, <<13, 47>>}

(***************************************************************************)
(* The notebook's namespace before any cell has run.                       *)
(***************************************************************************)
EmptyNamespace ==
    [hrf |-> <<>>,
     time_vector |-> <<>>,
     first_light_stim_time_series |-> <<>>,
     hrf_convolved_with_stim_time_series |-> <<>>,
     second_light_stim_time_series |-> <<>>,
     all_lights_time_series |-> <<>>,
     hrf_convolved_with_all_lights_time_series |-> <<>>,
     hrf_from_first_light |-> <<>>,
     hrf_from_second_light |-> <<>>,
     third_light_stim_time_series |-> <<>>,
     hrf_from_third_light |-> <<>>]

NotebookNotStarted ==
    /\ ns = EmptyNamespace
    /\ defined = {}
    /\ last = 0
    /\ topdown = 0
    /\ raised = FALSE

(***************************************************************************)
(* Init: one call, not yet made.                                           *)
(***************************************************************************)
Init ==
    /\ NotebookNotStarted
    /\ pc = "call"
    /\ result = NotCalled
    /\ swapped = NotCalled
    /\ conv_all = NotCalled
    /\ parts = <<>>
    /\ \/ /\ fn = "convolve"
          /\ signal \in ConvolveSignals
          /\ kernel \in ConvolveKernels
          /\ seqs = <<>> /\ length = 0 /\ onsetIndices = {}
          /\ zerosBefore = 0 /\ zerosAfter = 0
       \/ /\ fn = "linear"
          /\ \/ seqs \in {p \in LinearSums : Len(p[1]) = Len(p[2])}
                /\ kernel \in ConvolveKernels
             \/ seqs \in NotebookSums /\ kernel = hrf
          /\ signal = <<>> /\ length = 0 /\ onsetIndices = {}
          /\ zerosBefore = 0 /\ zerosAfter = 0
       \/ /\ fn = "sum"
          /\ seqs \in SumLists
          /\ signal = <<>> /\ kernel = <<>> /\ length = 0 /\ onsetIndices = {}
          /\ zerosBefore = 0 /\ zerosAfter = 0
       \/ /\ fn = "impulse"
          /\ \E t \in TrainInputs : length = t[1] /\ onsetIndices = t[2]
          /\ signal = <<>> /\ kernel = <<>> /\ seqs = <<>>
          /\ zerosBefore = 0 /\ zerosAfter = 0
       \/ /\ fn = "list"
          /\ \E t \in ListInputs : zerosBefore = t[1] /\ zerosAfter = t[2]
          /\ signal = <<>> /\ kernel = <<>> /\ seqs = <<>>
          /\ length = 0 /\ onsetIndices = {}

(***************************************************************************)
(* The operations.                                                         *)
(***************************************************************************)
\* hrf_convolved_with_stim_time_series = np.convolve(first_light_stim_time_series, hrf)
Convolve ==
    /\ fn = "convolve" /\ pc = "call"
    /\ result' = convolve(signal, kernel)
    /\ pc' = "done"
    /\ UNCHANGED <<fn, signal, kernel, seqs, length, onsetIndices, zerosBefore,
                   zerosAfter, swapped, conv_all, parts>>
    /\ UNCHANGED nbvars

\* the same call with the arguments exchanged: np.convolve(hrf, first_light_stim_time_series)
ConvolveSwapped ==
    /\ fn = "convolve" /\ pc = "done"
    /\ swapped' = convolve(kernel, signal)
    /\ pc' = "swapped"
    /\ UNCHANGED <<fn, signal, kernel, seqs, length, onsetIndices, zerosBefore,
                   zerosAfter, result, conv_all, parts>>
    /\ UNCHANGED nbvars

\* all_lights_time_series = first_light_stim_time_series + second_light_stim_time_series [+ third_...]
SumSequences ==
    /\ fn \in {"sum", "linear"} /\ pc = "call"
    /\ result' = sumSequences(seqs)
    /\ pc' = "done"
    /\ UNCHANGED <<fn, signal, kernel, seqs, length, onsetIndices, zerosBefore,
                   zerosAfter, swapped, conv_all, parts>>
    /\ UNCHANGED nbvars

\* hrf_convolved_with_all_lights_time_series = np.convolve(all_lights_time_series, hrf)
\* hrf_from_first_light = np.convolve(first_light_stim_time_series, hrf), and so on
ConvolveEach ==
    /\ fn = "linear" /\ pc = "done" /\ result.ok
    /\ conv_all' = convolve(result.val, kernel)
    /\ parts' = [i \in 1..Len(seqs) |-> convolve(seqs[i], kernel)]
    /\ pc' = "convolved"
    /\ UNCHANGED <<fn, signal, kernel, seqs, length, onsetIndices, zerosBefore,
                   zerosAfter, result, swapped>>
    /\ UNCHANGED nbvars

MakeImpulseTrain ==
    /\ fn = "impulse" /\ pc = "call"
    /\ result' = makeImpulseTrain(length, onsetIndices)
    /\ pc' = "done"
    /\ UNCHANGED <<fn, signal, kernel, seqs, length, onsetIndices, zerosBefore,
                   zerosAfter, swapped, conv_all, parts>>
    /\ UNCHANGED nbvars

\* x_light_stim_time_series = np.array([0]*k + [1] + [0]*m)
BuildList ==
    /\ fn = "list" /\ pc = "call"
    /\ result' = Ok(ZerosOneZeros(zerosBefore, zerosAfter))
    /\ pc' = "done"
    /\ UNCHANGED <<fn, signal, kernel, seqs, length, onsetIndices, zerosBefore,
                   zerosAfter, swapped, conv_all, parts>>
    /\ UNCHANGED nbvars

Next ==
    \/ Convolve
    \/ ConvolveSwapped
    \/ SumSequences
    \/ ConvolveEach
    \/ MakeImpulseTrain
    \/ BuildList

Spec == Init /\ [][Next]_vars

(***************************************************************************)
(* The notebook run as cells.  A code cell may be run at any time once the *)
(* variables it reads are assigned (running one earlier ends in NameError  *)
(* and changes nothing); "Run all" runs them top to bottom.  The cells     *)
(* that only import, print or draw the stimulus and response plots assign  *)
(* nothing and are left out; the cell that plots hrf against time_vector   *)
(* is kept, because plt.plot raises when the two lengths differ.  A cell   *)
(* that raises stops at the failing statement, and the run stops there.    *)
(***************************************************************************)
hvars == <<fn, pc, signal, kernel, seqs, length, onsetIndices, zerosBefore,
           zerosAfter, result, swapped, conv_all, parts>>

\* the code cells that assign or check something, by their position in the notebook
Cells == <<3, 5, 7, 9, 11, 15, 21, 23, 25, 29, 31, 35, 37>>

\* range(0,19): "from time=0 to time=18"
time_vector_to_18 == [i \in 1..19 |-> i - 1]

\* time_vector = range(0,20)
time_vector == [i \in 1..20 |-> i - 1]

\* first_light_stim_time_series = [0]*10 + [1] + [0]*50 (a list; list + array adds element-wise too)
first_light_stim_time_series_list == ZerosOneZeros(10, 50)

\* reverses v where it lies instead of reading it backwards
v_reversed_in_place(v) == Reverse(v)

\* the array passed as v, after np.convolve(a, v): v[::-1] is a view, v is not written
v_after_convolve(v) == v

\* the interpreter's state as a cell starts
Started == [ns |-> ns, defined |-> defined, raised |-> FALSE]

\* name = <value of r>; nothing is assigned when the right-hand side raises
Assign(st, name, r) ==
    LET before == st
        rhs == r
    IN  IF before.raised THEN before
        ELSE IF ~rhs.ok THEN [before EXCEPT !.raised = TRUE]
        ELSE [before EXCEPT !.ns[name] = rhs.val, !.defined = @ \cup {name}]

\* name = np.convolve(arg, hrf)
ConvolveInto(st, name, arg) ==
    LET before == st
        after == Assign(before, name, convolve(before.ns[arg], before.ns.hrf))
    IN  IF before.raised THEN before
        ELSE IF after.raised THEN after
        ELSE [after EXCEPT !.ns.hrf = v_after_convolve(before.ns.hrf)]

\* name = names[1] + names[2] + ...
AddInto(st, name, names) ==
    LET before == st
    IN  IF before.raised THEN before
        ELSE Assign(before, name,
                    sumSequences([i \in 1..Len(names) |-> before.ns[names[i]]]))

\* plt.plot(x, y): raises ValueError unless x and y have the same length
PlotXY(st, x, y) ==
    IF st.raised THEN st
    ELSE IF Len(st.ns[x]) = Len(st.ns[y]) THEN st
    ELSE [st EXCEPT !.raised = TRUE]

\* cell c, which reads the variables `reads`, leaves the interpreter in state st
Run(c, reads, st) ==
    /\ ~raised
    /\ reads \subseteq defined
    /\ LET end == st
       IN  /\ ns' = end.ns
           /\ defined' = end.defined
           /\ raised' = end.raised
    /\ last' = c
    /\ topdown' = IF topdown >= 0 /\ topdown < Len(Cells) /\ Cells[topdown + 1] = c
                  THEN topdown + 1 ELSE -1
    /\ UNCHANGED hvars

InitNotebook ==
    /\ NotebookNotStarted
    /\ fn = "notebook" /\ pc = "call"
    /\ signal = <<>> /\ kernel = <<>> /\ seqs = <<>>
    /\ length = 0 /\ onsetIndices = {} /\ zerosBefore = 0 /\ zerosAfter = 0
    /\ result = NotCalled /\ swapped = NotCalled /\ conv_all = NotCalled
    /\ parts = <<>>

\* hrf = np.array([...])
Cell3 == Run(3, {}, Assign(Started, "hrf", Ok(hrf)))

\* time_vector = range(0,20)
Cell5 == Run(5, {}, Assign(Started, "time_vector", Ok(time_vector)))

\* plt.plot(time_vector,hrf,'o-')
Cell7 == Run(7, {"time_vector", "hrf"}, PlotXY(Started, "time_vector", "hrf"))

\* first_light_stim_time_series = [0]*10 + [1] + [0]*50
Cell9 ==
    Run(9, {}, Assign(Started, "first_light_stim_time_series",
                      Ok(first_light_stim_time_series_list)))

\* first_light_stim_time_series = np.array([0]*10 + [1] + [0]*50)
Cell11 ==
    Run(11, {}, Assign(Started, "first_light_stim_time_series",
                       Ok(first_light_stim_time_series)))

\* hrf_convolved_with_stim_time_series = np.convolve(first_light_stim_time_series,hrf)
Cell15 ==
    Run(15, {"first_light_stim_time_series", "hrf"},
        ConvolveInto(Started, "hrf_convolved_with_stim_time_series",
                     "first_light_stim_time_series"))

\* second_light_stim_time_series = np.array([0]*30 + [1] + [0]*30)
Cell21 ==
    Run(21, {}, Assign(Started, "second_light_stim_time_series",
                       Ok(second_light_stim_time_series_t30)))

\* all_lights_time_series = first_light_stim_time_series + second_light_stim_time_series
Cell23 ==
    Run(23, {"first_light_stim_time_series", "second_light_stim_time_series"},
        AddInto(Started, "all_lights_time_series",
                <<"first_light_stim_time_series", "second_light_stim_time_series">>))

\* hrf_convolved_with_all_lights_time_series = np.convolve(all_lights_time_series,hrf)
Cell25 ==
    Run(25, {"all_lights_time_series", "hrf"},
        ConvolveInto(Started, "hrf_convolved_with_all_lights_time_series",
                     "all_lights_time_series"))

\* second_light_stim_time_series = np.array([0]*16 + [1] + [0]*44)
\* all_lights_time_series = first_light_stim_time_series + second_light_stim_time_series
Cell29 ==
    LET s1 == Assign(Started, "second_light_stim_time_series",
                     Ok(second_light_stim_time_series_t16))
        s2 == AddInto(s1, "all_lights_time_series",
                      <<"first_light_stim_time_series", "second_light_stim_time_series">>)
    IN  Run(29, {"first_light_stim_time_series"}, s2)

\* hrf_convolved_with_all_lights_time_series = np.convolve(all_lights_time_series,hrf)
\* hrf_from_first_light = np.convolve(first_light_stim_time_series,hrf)
\* hrf_from_second_light = np.convolve(second_light_stim_time_series,hrf)
Cell31 ==
    LET s1 == ConvolveInto(Started, "hrf_convolved_with_all_lights_time_series",
                           "all_lights_time_series")
        s2 == ConvolveInto(s1, "hrf_from_first_light", "first_light_stim_time_series")
        s3 == ConvolveInto(s2, "hrf_from_second_light", "second_light_stim_time_series")
    IN  Run(31, {"all_lights_time_series", "first_light_stim_time_series",
                 "second_light_stim_time_series", "hrf"}, s3)

\* third_light_stim_time_series = np.array([0]*13 + [1] + [0]*47)
Cell35 ==
    Run(35, {}, Assign(Started, "third_light_stim_time_series",
                       Ok(third_light_stim_time_series)))

\* all_lights_time_series = first + second + third, then the four np.convolve calls
Cell37 ==
    LET s1 == AddInto(Started, "all_lights_time_series",
                      <<"first_light_stim_time_series",
                        "second_light_stim_time_series",
                        "third_light_stim_time_series">>)
        s2 == ConvolveInto(s1, "hrf_convolved_with_all_lights_time_series",
                           "all_lights_time_series")
        s3 == ConvolveInto(s2, "hrf_from_first_light", "first_light_stim_time_series")
        s4 == ConvolveInto(s3, "hrf_from_second_light", "second_light_stim_time_series")
        s5 == ConvolveInto(s4, "hrf_from_third_light", "third_light_stim_time_series")
    IN  Run(37, {"first_light_stim_time_series", "second_light_stim_time_series",
                 "third_light_stim_time_series", "hrf"}, s5)

NextNotebook ==
    \/ Cell3
    \/ Cell5
    \/ Cell7
    \/ Cell9
    \/ Cell11
    \/ Cell15
    \/ Cell21
    \/ Cell23
    \/ Cell25
    \/ Cell29
    \/ Cell31
    \/ Cell35
    \/ Cell37

SpecNotebook == InitNotebook /\ [][NextNotebook]_vars

(***************************************************************************)
(* Helpers of the properties.  Indices are the Python (0-based) ones.      *)
(***************************************************************************)
\* s[i], taken as 0 outside 0..Len(s)-1
SignalAt(s, i) == IF i >= 0 /\ i < Len(s) THEN s[i + 1] ELSE 0

\* sum over k in k0..Len(ker)-1 of ker[k] * sig[n - k]
RECURSIVE ConvSum(_, _, _, _)
ConvSum(sig, ker, n, k0) ==
    IF k0 >= Len(ker) THEN 0
    ELSE ker[k0 + 1] * SignalAt(sig, n - k0) + ConvSum(sig, ker, n, k0 + 1)

\* s is 1 at index i and 0 at every other index
IsImpulseAt(s, i) ==
    /\ i >= 0 /\ i < Len(s)
    /\ \A j \in 0..(Len(s) - 1) : s[j + 1] = (IF j = i THEN 1 ELSE 0)

\* s is 1 at the indices of S and 0 at every other index
IsTrainAt(s, S) == \A j \in 0..(Len(s) - 1) : s[j + 1] = (IF j \in S THEN 1 ELSE 0)

\* what the spec calls InvalidInput and LengthMismatch: NumPy's ValueError texts
InvalidInput == {"a cannot be empty", "v cannot be empty"}
LengthMismatch == "operands could not be broadcast together"
IndexOutOfRange == "IndexOutOfRange"

Convolved == fn = "convolve" /\ pc \in {"done", "swapped"}

(***************************************************************************)
(* C1: for a signal of length N >= 1 and a kernel of length K >= 1,        *)
(* convolve returns exactly N + K - 1 elements, and element n is the sum   *)
(* over k in 0..K-1 of kernel[k] * signal[n - k], signal being 0 outside   *)
(* 0..N-1.                                                                 *)
(***************************************************************************)
C1_ConvolveIsFullConvolutionSum ==
    (Convolved /\ Len(signal) >= 1 /\ Len(kernel) >= 1) =>
        /\ result.ok
        /\ Len(result.val) = Len(signal) + Len(kernel) - 1
        /\ \A n \in 0..(Len(signal) + Len(kernel) - 2) :
               result.val[n + 1] = ConvSum(signal, kernel, n, 0)

C1_Witness ==
    /\ Convolved
    /\ signal = <<1, -1, 1>> /\ kernel = <<1, 1>>
    /\ result.ok /\ result.val = <<1, 0, 0, 1>>

C3_ConvolveIsCommutative ==
    (fn = "convolve" /\ pc = "swapped" /\ Len(signal) >= 1 /\ Len(kernel) >= 1) =>
        /\ result.ok /\ swapped.ok
        /\ Len(result.val) = Len(swapped.val)
        /\ \A i \in 1..Len(result.val) : result.val[i] = swapped.val[i]

C3_Witness ==
    /\ fn = "convolve" /\ pc = "swapped"
    /\ signal = <<1, 0, -1>> /\ kernel = <<1, 1>>
    /\ swapped.ok /\ swapped.val = <<1, 1, -1, -1>>

(***************************************************************************)
(* C4: for a kernel K and a signal of length N whose only 1 is at index i, *)
(* convolve(signal, K) holds K at positions i..i+len(K)-1 and 0 at every   *)
(* other position.  For the notebook's hrf (20 samples) and                *)
(* first_light_stim_time_series (61 samples, onset at index 10) the result *)
(* has 80 elements, result[10..29] is hrf, result[0..9] and result[30..79] *)
(* are 0.                                                                  *)
(***************************************************************************)
C4_ImpulseResponseIsShiftedKernel ==
    /\ (Convolved /\ Len(kernel) >= 1) =>
          \A i \in 0..(Len(signal) - 1) :
              IsImpulseAt(signal, i) =>
                  /\ result.ok
                  /\ Len(result.val) = Len(signal) + Len(kernel) - 1
                  /\ \A n \in 0..(Len(signal) + Len(kernel) - 2) :
                         result.val[n + 1] =
                             (IF n >= i /\ n <= i + Len(kernel) - 1
                              THEN kernel[n - i + 1] ELSE 0)
    /\ (Convolved /\ signal = first_light_stim_time_series /\ kernel = hrf) =>
          /\ Len(hrf) = 20
          /\ Len(signal) = 61 /\ IsImpulseAt(signal, 10)
          /\ result.ok
          /\ Len(result.val) = 80
          /\ \A n \in 10..29 : result.val[n + 1] = hrf[n - 10 + 1]
          /\ \A n \in (0..9) \cup (30..79) : result.val[n + 1] = 0

C4_Witness ==
    /\ Convolved
    /\ signal = first_light_stim_time_series /\ kernel = hrf
    /\ result.ok /\ result.val[16] = 92 /\ result.val[10] = 0

(***************************************************************************)
(* C5: for the two impulse trains of length 61 with onsets at 10 and 16,   *)
(* the element-wise sum is 1 at indices 10 and 16 and 0 elsewhere, and the *)
(* convolution of the sum with hrf equals, at every index 0..79, the sum   *)
(* of the two individual convolutions; for n in 16..29 that is             *)
(* hrf[n-10] + hrf[n-16].                                                  *)
(***************************************************************************)
C5_TwoOnsetsTenAndSixteen ==
    (fn = "linear" /\ pc = "convolved" /\ kernel = hrf
        /\ seqs = <<first_light_stim_time_series, second_light_stim_time_series_t16>>) =>
        /\ Len(seqs[1]) = 61 /\ Len(seqs[2]) = 61
        /\ IsImpulseAt(seqs[1], 10) /\ IsImpulseAt(seqs[2], 16)
        /\ result.ok /\ Len(result.val) = 61 /\ IsTrainAt(result.val, {10, 16})
        /\ conv_all.ok /\ parts[1].ok /\ parts[2].ok
        /\ Len(conv_all.val) = 80 /\ Len(parts[1].val) = 80 /\ Len(parts[2].val) = 80
        /\ \A n \in 0..79 : conv_all.val[n + 1] = parts[1].val[n + 1] + parts[2].val[n + 1]
        /\ \A n \in 16..29 : conv_all.val[n + 1] = hrf[n - 10 + 1] + hrf[n - 16 + 1]

C5_Witness ==
    /\ fn = "linear" /\ pc = "convolved" /\ kernel = hrf
    /\ seqs = <<first_light_stim_time_series, second_light_stim_time_series_t16>>
    /\ IsImpulseAt(seqs[2], 16)
    /\ conv_all.ok /\ conv_all.val[21] = 80     \* n = 20: hrf[10] + hrf[4] = 0 + 8

(***************************************************************************)
(* C6, as stated: for a signal of length N >= 1 and a kernel of length     *)
(* K >= 1 the output of convolve is longer than N and longer than K.       *)
(***************************************************************************)
C6_OutputLongerThanBothInputs ==
    (Convolved /\ Len(signal) >= 1 /\ Len(kernel) >= 1) =>
        /\ result.ok
        /\ Len(result.val) > Len(signal)
        /\ Len(result.val) > Len(kernel)

(***************************************************************************)
(* C6, amended: the output of convolve is never shorter than either input; *)
(* it is longer than the signal exactly when K >= 2 and longer than the    *)
(* kernel exactly when N >= 2.                                             *)
(***************************************************************************)
C6_OutputAtLeastAsLongAsInputs ==
    (Convolved /\ Len(signal) >= 1 /\ Len(kernel) >= 1) =>
        /\ result.ok
        /\ Len(result.val) >= Len(signal)
        /\ Len(result.val) >= Len(kernel)
        /\ (Len(result.val) > Len(signal)) = (Len(kernel) >= 2)
        /\ (Len(result.val) > Len(kernel)) = (Len(signal) >= 2)

C6_Witness ==
    /\ Convolved
    /\ Len(signal) = 3 /\ Len(kernel) = 1
    /\ result.ok /\ Len(result.val) = 3

C8_ConvolveRejectsEmptyInput ==
    Convolved =>
        /\ (Len(signal) = 0 \/ Len(kernel) = 0) =>
              /\ ~result.ok
              /\ result.err \in InvalidInput
              /\ result.val = <<>>
        /\ (Len(signal) >= 1 /\ Len(kernel) >= 1) =>
              /\ result.ok
              /\ result.err = "none"
              /\ Len(result.val) >= 1

C8_Witness ==
    /\ Convolved
    /\ signal = <<>> /\ kernel = <<1, 0>>
    /\ ~result.ok /\ result.err = "v cannot be empty"

(***************************************************************************)
(* C9: makeImpulseTrain(length, onsetIndices) returns exactly `length`     *)
(* elements, 1 at each index of onsetIndices and 0 at every other index;   *)
(* makeImpulseTrain(61, {}) is 61 zeros and makeImpulseTrain(5, {0,4}) is  *)
(* [1,0,0,0,1].  The notebook's vectors of k zeros, a 1 and 60-k zeros     *)
(* equal makeImpulseTrain(61, {k}) for k = 10, 13, 16, 30.                 *)
(***************************************************************************)
C9_ImpulseTrainShape ==
    /\ (fn = "impulse" /\ pc = "done" /\ onsetIndices \subseteq 0..(length - 1)) =>
          /\ result.ok
          /\ Len(result.val) = length
          /\ IsTrainAt(result.val, onsetIndices)
          /\ (onsetIndices = {}) => result.val = ListRepeat(0, length)
          /\ (length = 5 /\ onsetIndices = {0, 4}) => result.val = <<1, 0, 0, 0, 1>>
    /\ (fn = "list" /\ pc = "done" /\ zerosBefore \in {10, 13, 16, 30}
           /\ zerosAfter = 60 - zerosBefore) =>
          /\ result.ok
          /\ makeImpulseTrain(61, {zerosBefore}).ok
          /\ result.val = makeImpulseTrain(61, {zerosBefore}).val
          /\ Len(result.val) = 61 /\ IsImpulseAt(result.val, zerosBefore)
          /\ (zerosBefore = 10) => result.val = first_light_stim_time_series
          /\ (zerosBefore = 30) => result.val = second_light_stim_time_series_t30
          /\ (zerosBefore = 16) => result.val = second_light_stim_time_series_t16
          /\ (zerosBefore = 13) => result.val = third_light_stim_time_series

C9_Witness ==
    /\ fn = "list" /\ pc = "done"
    /\ zerosBefore = 13 /\ zerosAfter = 47
    /\ result.ok /\ result.val = makeImpulseTrain(61, {13}).val
    /\ result.val[14] = 1

(***************************************************************************)
(* C10: makeImpulseTrain fails with IndexOutOfRange whenever an onset      *)
(* index is below 0 or above length-1 (the index equal to length           *)
(* included), and succeeds whenever every onset index lies in              *)
(* 0..length-1.                                                            *)
(***************************************************************************)
C10_ImpulseTrainRangeCheck ==
    (fn = "impulse" /\ pc = "done") =>
        /\ (\E i \in onsetIndices : i < 0 \/ i > length - 1) =>
              /\ ~result.ok
              /\ result.err = IndexOutOfRange
              /\ result.val = <<>>
        /\ (\A i \in onsetIndices : i >= 0 /\ i <= length - 1) => result.ok

C10_Witness ==
    /\ fn = "impulse" /\ pc = "done"
    /\ length = 5 /\ onsetIndices = {0, 5}
    /\ ~result.ok /\ result.err = IndexOutOfRange

(***************************************************************************)
(* C11: sumSequences of one or more sequences of the same length L returns *)
(* L elements, element i being the sum of element i over all inputs; the   *)
(* sum does not saturate: where two summed impulse trains both have an     *)
(* onset, the result is 2.                                                 *)
(***************************************************************************)
\* sum over s in from..Len(ss) of ss[s][i]
RECURSIVE SumAt(_, _, _)
SumAt(ss, i, from) ==
    IF from > Len(ss) THEN 0 ELSE ss[from][i] + SumAt(ss, i, from + 1)

C11_SumIsElementwiseAndAdditive ==
    (fn = "sum" /\ pc = "done"
        /\ \A s \in 1..Len(seqs) : Len(seqs[s]) = Len(seqs[1])) =>
        /\ result.ok
        /\ Len(result.val) = Len(seqs[1])
        /\ \A i \in 1..Len(seqs[1]) : result.val[i] = SumAt(seqs, i, 1)
        /\ Len(seqs) = 2 =>
              \A i \in 1..Len(seqs[1]) :
                  (seqs[1][i] = 1 /\ seqs[2][i] = 1) => result.val[i] = 2

C11_Witness ==
    /\ fn = "sum" /\ pc = "done"
    /\ seqs = << <<0, 1>>, <<1, 1>> >>
    /\ result.ok /\ result.val = <<1, 2>>

(***************************************************************************)
(* C13: for every kernel and every all-zero signal of length N >= 1,       *)
(* convolve(signal, kernel) is all zeros and has N + len(kernel) - 1       *)
(* elements.                                                               *)
(***************************************************************************)
C13_ZeroSignalGivesZeroOutput ==
    (Convolved /\ Len(signal) >= 1 /\ Len(kernel) >= 1
        /\ \A i \in 1..Len(signal) : signal[i] = 0) =>
        /\ result.ok
        /\ Len(result.val) = Len(signal) + Len(kernel) - 1
        /\ \A n \in 1..Len(result.val) : result.val[n] = 0

C13_Witness ==
    /\ Convolved
    /\ signal = <<0, 0, 0>> /\ kernel = <<1, -1>>
    /\ result.ok /\ result.val = <<0, 0, 0, 0>>

(***************************************************************************)
(* Helpers of the notebook's properties.                                   *)
(***************************************************************************)
Def(name) == name \in defined

\* the cells run so far are the first cells of the notebook, top to bottom
TopToBottom == topdown >= 0

\* "Run all" has finished
RanAll == topdown = Len(Cells)

StimulusNames ==
    {"first_light_stim_time_series", "second_light_stim_time_series",
     "third_light_stim_time_series", "all_lights_time_series"}

ConvolutionNames ==
    {"hrf_convolved_with_stim_time_series", "hrf_convolved_with_all_lights_time_series",
     "hrf_from_first_light", "hrf_from_second_light", "hrf_from_third_light"}

\* plt.axis([0, 60, 0, 1.2]): the top of the stem plots, in tenths
stem_axis_ymax == 12

C17_LengthsSixtyOneAndEighty ==
    /\ ~raised
    /\ \A name \in StimulusNames : Def(name) => Len(ns[name]) = 61
    /\ \A name \in ConvolutionNames : Def(name) => Len(ns[name]) = 80

C17_Witness ==
    /\ ~TopToBottom /\ last = 37 /\ ~raised
    /\ IsTrainAt(ns.all_lights_time_series, {10, 13, 30})
    /\ Len(ns.all_lights_time_series) = 61
    /\ Len(ns.hrf_from_third_light) = 80

(***************************************************************************)
(* C18: in every state of a top-to-bottom run every element of             *)
(* all_lights_time_series is 0 or 1: the onsets combined in each sum (10   *)
(* and 30; 10 and 16; 10, 16 and 13) never coincide, so no element reaches *)
(* 2 and every value lies inside the stem plots' vertical range 0..1.2.    *)
(***************************************************************************)
C18_AllLightsIsZeroOrOne ==
    (TopToBottom /\ Def("all_lights_time_series")) =>
        /\ \A i \in 1..Len(ns.all_lights_time_series) :
               /\ ns.all_lights_time_series[i] \in {0, 1}
               /\ ns.all_lights_time_series[i] >= 0
               /\ 10 * ns.all_lights_time_series[i] <= stem_axis_ymax
        /\ (last \in {23, 25}) => IsTrainAt(ns.all_lights_time_series, {10, 30})
        /\ (last \in {29, 31, 35}) => IsTrainAt(ns.all_lights_time_series, {10, 16})
        /\ (last = 37) => IsTrainAt(ns.all_lights_time_series, {10, 16, 13})

C18_Witness ==
    /\ TopToBottom /\ last = 37
    /\ Def("all_lights_time_series")
    /\ ns.all_lights_time_series[11] = 1 /\ ns.all_lights_time_series[14] = 1
    /\ ns.all_lights_time_series[17] = 1

====
